---- MODULE Spec2Model ----
(***************************************************************************)
(* A model of the file_search_bot repository: the SQLite cache and stats   *)
(* layer (db.py), the search engine wrapper (search.py), the video         *)
(* downloader (downloader.py) and the message handlers (bot.py).           *)
(*                                                                         *)
(* Strings are TLA+ strings.  Time is counted in ticks of 1/DayTicks of a  *)
(* day.  `now` is the UTC clock (what SQLite's CURRENT_TIMESTAMP reads);   *)
(* Python's datetime.now() reads the local wall clock, now + tz.           *)
(***************************************************************************)
EXTENDS Integers, Sequences, FiniteSets, TLC

VARIABLES
    search_cache,   \* table search_cache: sequence of rows, in rowid order
    search_stats,   \* table search_stats: sequence of rows, in rowid order
    now,            \* UTC clock, in ticks
    tz,             \* offset of the process's local time from UTC, in ticks
    ret,            \* the Database call made last and what it returned
    stored,         \* the cache_results call made last, while its row is kept
    record_calls,   \* the user ids of the save_search_stats calls made so far
    config,         \* the Config object built at start-up
    req,            \* the /search messages and where their handler stands
    cache_log,      \* the handlers that wrote the cache, in commit order
    vreq,           \* the video-link messages and where their handler stands
    disk,           \* the files in the download directory
    multi           \* the search_all call and where its three branches stand

dbvars == <<search_cache, search_stats, now, tz>>
callvars == <<ret, stored, record_calls>>
botvars == <<config, req, cache_log, multi>>
vidvars == <<vreq, disk>>
vars == <<search_cache, search_stats, now, tz, ret, stored, record_calls, config, req, cache_log,
          vreq, disk, multi>>

----------------------------------------------------------------------------
(* Bounds *)

(* save_search_stats calls made directly *)
MaxStats == 2

(* occurrences of one query text in a stats log given to get_stats *)
MaxCount == 2

MaxTime == 3        \* the clock stops advancing here
DayTicks == 2       \* ticks per day
MaxDays == 1        \* largest explicit expire_days / days argument

(* Program constants *)

DefaultExpireDays == 7      \* get_cached_results(expire_days=7)

----------------------------------------------------------------------------
(* Python values *)

None == [none |-> TRUE]
Some(v) == [none |-> FALSE, val |-> v]
NoCall == [op |-> "none"]

(* bool(x) of an Optional[List]: None and [] are both falsy *)
Truthy(x) == (~x.none) /\ x.val # <<>>

----------------------------------------------------------------------------
(* str.lower(), str.strip(), SQL LOWER() *)

UpperChars == "ABCDEFGHIJKLMNOPQRSTUVWXYZ"
LowerChars == "abcdefghijklmnopqrstuvwxyz"

CharAt(s, i) == SubSeq(s, i, i)

LowerTable ==
    [c \in {CharAt(UpperChars, i) : i \in 1..Len(UpperChars)} |->
        CharAt(LowerChars, CHOOSE i \in 1..Len(UpperChars) : CharAt(UpperChars, i) = c)]

LowerChar(c) == IF c \in DOMAIN LowerTable THEN LowerTable[c] ELSE c

RECURSIVE lower(_)
lower(s) == IF s = "" THEN "" ELSE LowerChar(Head(s)) \o lower(Tail(s))

IsSpace(c) == c \in {" ", "\t", "\n"}

RECURSIVE lstrip(_)
lstrip(s) == IF s # "" /\ IsSpace(Head(s)) THEN lstrip(Tail(s)) ELSE s

RECURSIVE rstrip(_)
rstrip(s) ==
    IF s # "" /\ IsSpace(CharAt(s, Len(s)))
    THEN rstrip(SubSeq(s, 1, Len(s) - 1))
    ELSE s

strip(s) == rstrip(lstrip(s))

(* SQLite's LOWER() folds the ASCII letters, as str.lower() does on them *)
SqlLower(s) == lower(s)

(* query.lower().strip(), db.py lines 88 and 123 *)
normalized_query(query) == strip(lower(query))

----------------------------------------------------------------------------
(* Search results and their JSON text.  A result is a dict with the keys   *)
(* _parse_google_results writes, in that order; the JSON text is kept as   *)
(* its sequence of tokens.                                                 *)

KeyOrder == <<"title", "link", "snippet", "displayLink", "image">>

r1 == [title |-> "t1", link |-> "l1", snippet |-> "s1", displayLink |-> "d1"]
r2 == [title |-> "t2", link |-> "l2", snippet |-> "", displayLink |-> "d2",
       image |-> "i2"]
Items == {r1, r2}

ResultLists == {<<>>, <<r1>>, <<r2, r1>>}

RECURSIVE DumpPairs(_, _)
DumpPairs(d, k) ==
    IF k > Len(KeyOrder) THEN <<>>
    ELSE (IF KeyOrder[k] \in DOMAIN d THEN <<KeyOrder[k], d[KeyOrder[k]]>> ELSE <<>>)
         \o DumpPairs(d, k + 1)

DumpDict(d) == <<"{">> \o DumpPairs(d, 1) \o <<"}">>

RECURSIVE DumpItems(_, _)
DumpItems(results, i) ==
    IF i > Len(results) THEN <<>>
    ELSE DumpDict(results[i]) \o DumpItems(results, i + 1)

(* json.dumps(results, ensure_ascii=False) *)
DumpsReversed(results) ==
    <<"[">> \o DumpItems([i \in 1..Len(results) |-> results[Len(results) + 1 - i]], 1)
    \o <<"]">>
dumps(results) == <<"[">> \o DumpItems(results, 1) \o <<"]">>

(* json.loads: the parser.  ParsePairs reads key, value pairs up to "}";   *)
(* ParseItems reads dicts up to "]".  A result of ok = FALSE is            *)
(* json.JSONDecodeError.                                                   *)
Bad == [ok |-> FALSE]

RECURSIVE ParsePairs(_, _, _)
ParsePairs(toks, i, acc) ==
    IF i > Len(toks) THEN Bad
    ELSE IF toks[i] = "}" THEN [ok |-> TRUE, val |-> acc, next |-> i + 1]
    ELSE IF toks[i] \in {"{", "[", "]"} \/ i + 1 > Len(toks) THEN Bad
    ELSE IF toks[i + 1] \in {"{", "}", "[", "]"} THEN Bad
    ELSE ParsePairs(toks, i + 2, (toks[i] :> toks[i + 1]) @@ acc)

RECURSIVE ParseItems(_, _, _)
ParseItems(toks, i, acc) ==
    IF i > Len(toks) THEN Bad
    ELSE IF toks[i] = "]"
         THEN IF i = Len(toks) THEN [ok |-> TRUE, val |-> acc] ELSE Bad
    ELSE IF toks[i] # "{" THEN Bad
    ELSE LET d == ParsePairs(toks, i + 1, <<>>)
         IN  IF d.ok THEN ParseItems(toks, d.next, Append(acc, d.val)) ELSE Bad

loads_lenient(text) == [ok |-> TRUE, val |-> <<r1>>]
loads(text) ==
    IF text = <<>> \/ text[1] # "[" THEN Bad ELSE ParseItems(text, 2, <<>>)

----------------------------------------------------------------------------
(* db.py: class Database.  init_db creates the two tables empty.  Each     *)
(* method opens its own connection and commits before it returns, so a     *)
(* method is one step.                                                     *)

(* CURRENT_TIMESTAMP, the column default of created_at: UTC *)
CURRENT_TIMESTAMP == now

(* datetime.now(): naive local time *)
datetime_now == now + tz

timedelta(days) == days * DayTicks

(* WHERE ... created_at > ? *)
Fresh(created_at, expire_date) == created_at > expire_date

get_cached_results(query, expire_days) ==
    LET nq == normalized_query(query)
        expire_date == datetime_now - timedelta(expire_days)
        rows == SelectSeq(search_cache,
                    LAMBDA row : SqlLower(row.query) = nq
                                 /\ Fresh(row.created_at, expire_date))
    IN  IF rows = <<>> THEN None
        ELSE LET decoded == loads(rows[1].results)
             IN  IF decoded.ok THEN Some(decoded.val) ELSE None

(* INSERT OR REPLACE under UNIQUE(query): the conflicting row is deleted   *)
(* and the new row gets a fresh rowid, the end of the sequence.            *)
InsertPlain(table, row) == Append(table, row)
InsertOrIgnore(table, row) ==
    IF \E i \in DOMAIN table : table[i].query = row.query THEN table
    ELSE Append(table, row)
InsertOrReplace(table, row) ==
    SelectSeq(table, LAMBDA old : old.query # row.query) \o <<row>>

CacheRow(query, results) ==
    [query |-> normalized_query(query), results |-> dumps(results),
     created_at |-> CURRENT_TIMESTAMP]

cache_results(query, results) ==
    InsertOrReplace(search_cache, CacheRow(query, results))

save_search_stats_keep_last(user_id, query, results_count) ==
    <<[user_id |-> user_id, query |-> query, results_count |-> results_count,
       created_at |-> CURRENT_TIMESTAMP]>>
save_search_stats(user_id, query, results_count) ==
    Append(search_stats,
           [user_id |-> user_id, query |-> query, results_count |-> results_count,
            created_at |-> CURRENT_TIMESTAMP])

(* get_stats' last query: GROUP BY query gives one row per distinct text   *)
(* with its row count; ORDER BY count DESC LIMIT 5 returns the first five *)
(* rows of some order with non-increasing counts, rows of equal count in   *)
(* whichever order SQLite produces.  top_queries is the set of the lists   *)
(* the query may return.                                                   *)
TopLimit == 5

GroupCount(query) ==
    Cardinality({i \in DOMAIN search_stats : search_stats[i].query = query})

(* the rows of GROUP BY query: <<query, count>> *)
GroupByQuery ==
    {<<search_stats[i].query, GroupCount(search_stats[i].query)>> :
        i \in DOMAIN search_stats}

RECURSIVE OrderByCountAny(_, _)
OrderByCountAny(rows, limit) ==
    IF rows = {} \/ limit = 0 THEN {<<>>}
    ELSE UNION {{<<row>> \o rest : rest \in OrderByCountAny(rows \ {row}, limit - 1)} :
                row \in rows}
RECURSIVE OrderByCountDesc(_, _)
OrderByCountDesc(rows, limit) ==
    IF rows = {} \/ limit = 0 THEN {<<>>}
    ELSE UNION {{<<row>> \o rest : rest \in OrderByCountDesc(rows \ {row}, limit - 1)} :
                row \in {r \in rows : \A other \in rows : other[2] <= r[2]}}

top_queries == OrderByCountDesc(GroupByQuery, TopLimit)

(* get_stats: the three counts and the top queries (here the set of lists  *)
(* the last query may return; a call returns one of them)                  *)
get_stats_distinct ==
    [total_searches |->
         Cardinality({<<search_stats[i].user_id, search_stats[i].query>> :
                         i \in DOMAIN search_stats}),
     unique_users |->
         Cardinality({search_stats[i].user_id : i \in DOMAIN search_stats}),
     cached_queries |-> Len(search_cache),
     top_queries |-> top_queries]
get_stats ==
    [total_searches |-> Len(search_stats),
     unique_users |->
         Cardinality({search_stats[i].user_id : i \in DOMAIN search_stats}),
     cached_queries |-> Len(search_cache),
     top_queries |-> top_queries]

clear_cache_keep_new == SelectSeq(search_cache, LAMBDA row : row.created_at = now)
clear_cache == <<>>

(* DELETE ... WHERE created_at < ? ; returns cursor.rowcount *)
Stale(row, days) == row.created_at < datetime_now - timedelta(days)
clear_old_cache(days) == SelectSeq(search_cache, LAMBDA row : ~Stale(row, days))
clear_old_cache_count(days) ==
    Len(SelectSeq(search_cache, LAMBDA row : Stale(row, days)))

----------------------------------------------------------------------------
(* The Database methods called directly, one call per step. *)

Queries == {"py", " PY ", "go"}
ExpireDays == (1..MaxDays) \cup {DefaultExpireDays}
TzOffsets == (1 - DayTicks)..(DayTicks - 1)

Requests == {"m1", "m2"}
Videos == {"v1", "v2"}

(* config.py: Config.__init__ reads the environment *)
DefaultConfig ==
    [GOOGLE_SEARCH_ENABLED |-> TRUE, CACHE_EXPIRE_DAYS |-> DefaultExpireDays,
     ADMIN_IDS |-> <<>>, YOUTUBE_API_KEY |-> None, GOOGLE_DRIVE_CREDENTIALS |-> None]
Configs ==
    [GOOGLE_SEARCH_ENABLED : BOOLEAN, CACHE_EXPIRE_DAYS : ExpireDays,
     ADMIN_IDS : {<<>>}, YOUTUBE_API_KEY : {None}, GOOGLE_DRIVE_CREDENTIALS : {None}]

Idle == [pc |-> "idle"]

(* main(): db.init_db() on a new database file *)
InitTables ==
    /\ search_cache = <<>>
    /\ search_stats = <<>>
    /\ now = 0
    /\ ret = NoCall
    /\ stored = NoCall
    /\ record_calls = <<>>
    /\ req = [m \in Requests |-> Idle]
    /\ cache_log = <<>>
    /\ vreq = [v \in Videos |-> Idle]
    /\ disk = {}
    /\ multi = Idle

InitDb == InitTables /\ tz \in TzOffsets /\ config = DefaultConfig

CallGetCachedResultsPruning(query, expire_days) ==
    /\ ret' = [op |-> "get_cached_results", query |-> query,
               expire_days |-> expire_days,
               value |-> get_cached_results(query, expire_days)]
    /\ search_cache' = SelectSeq(search_cache,
           LAMBDA row : Fresh(row.created_at, datetime_now - timedelta(expire_days)))
    /\ UNCHANGED <<search_stats, now, tz, stored, botvars, vidvars, record_calls>>
CallGetCachedResults(query, expire_days) ==
    /\ ret' = [op |-> "get_cached_results", query |-> query,
               expire_days |-> expire_days,
               value |-> get_cached_results(query, expire_days)]
    /\ UNCHANGED <<search_cache, search_stats, now, tz, stored, botvars, vidvars, record_calls>>

CallCacheResults(query, results) ==
    /\ search_cache' = cache_results(query, results)
    /\ stored' = [op |-> "cache_results", query |-> query, results |-> results,
                  at |-> now,
                  replaced |-> (\E i \in DOMAIN search_cache :
                                   search_cache[i].query = normalized_query(query)),
                  repeated |-> (stored.op = "cache_results"
                                /\ stored.query = query
                                /\ stored.results = results)]
    /\ ret' = NoCall
    /\ UNCHANGED <<search_stats, now, tz, botvars, vidvars, record_calls>>

CallClearCache ==
    /\ search_cache' = clear_cache
    /\ ret' = [op |-> "clear_cache"]
    /\ stored' = [op |-> "clear_cache",
                  had |-> {search_cache[i].query : i \in DOMAIN search_cache}]
    /\ UNCHANGED <<search_stats, now, tz, botvars, vidvars, record_calls>>

CallClearOldCache(days) ==
    /\ search_cache' = clear_old_cache(days)
    /\ ret' = [op |-> "clear_old_cache", days |-> days,
               before |-> search_cache,
               value |-> clear_old_cache_count(days)]
    /\ stored' = NoCall
    /\ UNCHANGED <<search_stats, now, tz, botvars, vidvars, record_calls>>

Tick ==
    /\ now < MaxTime
    /\ now' = now + 1
    /\ ret' = NoCall
    /\ UNCHANGED <<search_cache, search_stats, tz, stored, botvars, vidvars, record_calls>>

NextDb ==
    \/ \E query \in Queries, expire_days \in ExpireDays :
           CallGetCachedResults(query, expire_days)
    \/ \E query \in Queries, results \in ResultLists :
           CallCacheResults(query, results)
    \/ CallClearCache
    \/ \E days \in ExpireDays : CallClearOldCache(days)
    \/ Tick

SpecDb == InitDb /\ [][NextDb]_vars

(* The cache methods together with save_search_stats and get_stats. *)
Users == {1, 2}
StatsQueries == {"py", "GO "}

CallSaveSearchStats(user_id, query, results_count) ==
    /\ Len(record_calls) < MaxStats
    /\ search_stats' = save_search_stats(user_id, query, results_count)
    /\ record_calls' = Append(record_calls, user_id)
    /\ ret' = NoCall
    /\ UNCHANGED <<search_cache, now, tz, stored, botvars, vidvars>>

CallGetStats ==
    /\ LET stats == get_stats
       IN  \E top \in stats.top_queries :
              ret' = [op |-> "get_stats",
                      value |-> [stats EXCEPT !.top_queries = top]]
    /\ UNCHANGED <<search_cache, search_stats, now, tz, stored, botvars, vidvars,
                   record_calls>>

NextStats ==
    \/ \E query \in StatsQueries : CallGetCachedResults(query, DefaultExpireDays)
    \/ \E query \in StatsQueries : CallCacheResults(query, <<r1>>)
    \/ CallClearCache
    \/ \E days \in 1..MaxDays : CallClearOldCache(days)
    \/ \E user_id \in Users : CallSaveSearchStats(user_id, "py", 1)
    \/ CallGetStats
    \/ Tick

InitStats == InitTables /\ tz = 0 /\ config = DefaultConfig

SpecStats == InitStats /\ [][NextStats]_vars

(* get_stats on a stats log in which each of the first four texts of       *)
(* TopTexts occurs up to MaxCount times, and the last two more often.      *)
TopTexts == <<"py", "PY", "py ", "go", "a", "b">>

RECURSIVE StatsLog(_, _)
StatsLog(counts, k) ==
    IF k > Len(TopTexts) THEN <<>>
    ELSE [i \in 1..counts[k] |->
              [user_id |-> 1, query |-> TopTexts[k], results_count |-> 1,
               created_at |-> 0]]
         \o StatsLog(counts, k + 1)

InitTop ==
    /\ \E counts \in [1..(Len(TopTexts) - 2) -> 0..MaxCount] :
          search_stats = StatsLog(counts \o <<MaxCount + 1, MaxCount + 2>>, 1)
    /\ search_cache = <<>>
    /\ now = 0
    /\ ret = NoCall
    /\ stored = NoCall
    /\ record_calls = [i \in DOMAIN search_stats |-> search_stats[i].user_id]
    /\ req = [m \in Requests |-> Idle]
    /\ cache_log = <<>>
    /\ vreq = [v \in Videos |-> Idle]
    /\ disk = {}
    /\ multi = Idle
    /\ tz = 0
    /\ config = DefaultConfig

NextTop == CallGetStats

SpecTop == InitTop /\ [][NextTop]_vars

(* Lookups with every expiry window among stores and stats records. *)
NextLookup ==
    \/ \E query \in StatsQueries, expire_days \in ExpireDays :
           CallGetCachedResults(query, expire_days)
    \/ \E query \in StatsQueries : CallCacheResults(query, <<r1>>)
    \/ CallSaveSearchStats(1, "py", 1)
    \/ Tick

SpecLookup == InitStats /\ [][NextLookup]_vars

----------------------------------------------------------------------------
(* search.py: class SearchEngine.  The HTTP exchange with the Custom       *)
(* Search API is an input: what the request came back with.                *)

raw1 == [title |-> "t1", link |-> "l1", snippet |-> "s1", displayLink |-> "d1"]
raw2 == [title |-> "t2", link |-> "l2", displayLink |-> "d2",
         pagemap |-> [cse_image |-> <<[src |-> "i2"]>>]]

ApiResponses ==
    {[kind |-> "ClientError"],                         \* transport error
     [kind |-> "status", status |-> 403],              \* non-200 status
     [kind |-> "bad_json"],                            \* response.json() raises
     [kind |-> "json", data |-> [kind |-> "customsearch#search"]],
     [kind |-> "json", data |-> [items |-> <<raw1>>]],
     [kind |-> "json", data |-> [items |-> <<raw2, raw1>>]]}

Get(d, key, default) == IF key \in DOMAIN d THEN d[key] ELSE default

ParseItem(item) ==
    LET result == [title |-> Get(item, "title", "Bez nazvaniya"),
                   link |-> Get(item, "link", ""),
                   snippet |-> Get(item, "snippet", ""),
                   displayLink |-> Get(item, "displayLink", "")]
    IN  IF "pagemap" \in DOMAIN item
           /\ "cse_image" \in DOMAIN item.pagemap
           /\ item.pagemap.cse_image # <<>>
        THEN ("image" :> Get(item.pagemap.cse_image[1], "src", "")) @@ result
        ELSE result

_parse_google_results(data) ==
    IF "items" \notin DOMAIN data THEN <<>>
    ELSE [i \in 1..Len(data.items) |-> ParseItem(data.items[i])]

_google_search_keep_errors(response) ==
    IF response.kind = "json" THEN _parse_google_results(response.data) ELSE <<r1>>
_google_search(response) ==
    CASE response.kind = "json" -> _parse_google_results(response.data)
      [] response.kind = "status" -> <<>>
      [] response.kind = "ClientError" -> <<>>
      [] OTHER -> <<>>

(* search(): _google_search catches everything itself *)
search(response) == _google_search(response)

----------------------------------------------------------------------------
(* bot.py: cmd_search.  A handler runs until its next await; the steps     *)
(* below are the stretches between awaits.                                 *)

Texts == {"/search py", "/search  PY ", "/search go", "/search "}

from_user == [m \in Requests |-> IF m = "m1" THEN 1 ELSE 2]

RECURSIVE RemoveAll(_, _)
RemoveAll(s, old) ==
    IF Len(s) < Len(old) THEN s
    ELSE IF SubSeq(s, 1, Len(old)) = old
         THEN RemoveAll(SubSeq(s, Len(old) + 1, Len(s)), old)
         ELSE Head(s) \o RemoveAll(Tail(s), old)

(* message.text.replace("/search", "").strip() *)
QueryOfNoStrip(text) == RemoveAll(text, "/search")
QueryOf(text) == strip(RemoveAll(text, "/search"))

Finished(outcome) == [pc |-> "done", outcome |-> outcome]

(* `if cached_results:` *)
CacheHitNever(cached) == FALSE
CacheHit(cached) == Truthy(cached)

(* `if results:` before db.cache_results *)
ShouldCacheAlways(results) == TRUE
ShouldCache(results) == results # <<>>

(* age of the row get_cached_results would find for the query, or -1 *)
RowAge(query) ==
    LET rows == SelectSeq(search_cache,
                    LAMBDA row : SqlLower(row.query) = normalized_query(query))
    IN  IF rows = <<>> THEN -1 ELSE now - rows[1].created_at

(* What SQLite does to a Database method: it works; sqlite3.connect raises *)
(* in get_connection, outside the method's try; or execute/commit raises   *)
(* sqlite3.Error inside the try of cache_results and save_search_stats.    *)
DbOutcomes == {"ok", "connect", "sqlite3.Error"}
DbReads == {"ok", "connect"}
NoFaults == {"ok"}

(* the results text of the row get_cached_results fetches, or <<"none">> *)
RowText(query, expire_days) ==
    LET expire_date == datetime_now - timedelta(expire_days)
        rows == SelectSeq(search_cache,
                    LAMBDA row : SqlLower(row.query) = normalized_query(query)
                                 /\ Fresh(row.created_at, expire_date))
    IN  IF rows = <<>> THEN <<"none">> ELSE rows[1].results

(* lines 94-116: the guards, then `await message.answer("...")` *)
cmd_search(m, text) ==
    /\ req[m].pc = "idle"
    /\ req' = [req EXCEPT ![m] =
          (IF ~config.GOOGLE_SEARCH_ENABLED THEN Finished("unavailable")
           ELSE IF QueryOf(text) = "" THEN Finished("usage")
           ELSE [pc |-> "status", user_id |-> from_user[m], query |-> QueryOf(text)])
          @@ [text |-> text]]
    /\ UNCHANGED <<dbvars, callvars, config, cache_log, vidvars, multi>>

(* lines 116-129: the status message is out (or the send raised, outside   *)
(* the try); the cache lookup; on a miss `await search_engine.search`      *)
cmd_search_lookup(m, sent, db) ==
    /\ req[m].pc = "status"
    /\ LET query == req[m].query
           cached == get_cached_results(query, DefaultExpireDays)
           looked == [user_id |-> req[m].user_id, query |-> query,
                      text |-> req[m].text,
                      cached |-> cached, row_age |-> RowAge(query),
                      row_text |-> RowText(query, DefaultExpireDays)]
       IN  req' = [req EXCEPT ![m] =
             IF ~sent THEN Finished("raised") @@ req[m]
             ELSE IF db # "ok" THEN Finished("error") @@ req[m]
             ELSE IF CacheHit(cached)
                  THEN [pc |-> "send", results |-> cached.val, source |-> "cache",
                        api_calls |-> 0, cache_writes |-> 0] @@ looked
                  ELSE [pc |-> "api", api_calls |-> 1] @@ looked]
    /\ UNCHANGED <<dbvars, callvars, config, cache_log, vidvars, multi>>

(* lines 129-166: search() returned; the cache write; the reply is sent.   *)
(* cache_results raising leaves the try for the handler's except.          *)
cmd_search_store(m, response, db) ==
    /\ req[m].pc = "api"
    /\ LET results == search(response)
           cached == ShouldCache(results)
           written == cached /\ db = "ok"
       IN  /\ search_cache' =
                 IF written THEN cache_results(req[m].query, results) ELSE search_cache
           /\ cache_log' = IF written THEN Append(cache_log, m) ELSE cache_log
           /\ req' = [req EXCEPT ![m] =
                 (IF cached /\ db = "connect" THEN Finished("error")
                  ELSE [pc |-> IF results # <<>> THEN "send" ELSE "notfound"])
                 @@ [results |-> results, source |-> "live",
                     response |-> response,
                     cache_db |-> IF cached THEN db ELSE "ok",
                     cache_writes |-> IF written THEN 1 ELSE 0] @@ req[m]]
    /\ UNCHANGED <<search_stats, now, tz, callvars, config, vidvars, multi>>

(* lines 153-176: the reply is out, then db.save_search_stats; or the send *)
(* or save_search_stats raised and the handler's except answers with the   *)
(* error text                                                              *)
cmd_search_reply(m, sent, db) ==
    /\ req[m].pc \in {"send", "notfound"}
    /\ LET r == req[m]
           called == sent /\ r.pc = "send"
           record == called /\ db = "ok"
       IN  /\ search_stats' =
                 IF record
                 THEN save_search_stats(r.user_id, r.query, Len(r.results))
                 ELSE search_stats
           /\ record_calls' =
                 IF called THEN Append(record_calls, r.user_id) ELSE record_calls
           /\ req' = [req EXCEPT ![m] =
                 [pc |-> "done",
                  outcome |-> IF ~sent \/ (called /\ db = "connect") THEN "error"
                              ELSE IF r.pc = "send" THEN "results" ELSE "not_found",
                  reply_sent |-> sent,
                  stats_db |-> IF called THEN db ELSE "ok",
                  stats_writes |-> IF record THEN 1 ELSE 0] @@ r]
    /\ UNCHANGED <<search_cache, now, tz, ret, stored, config, cache_log, vidvars, multi>>

Init == InitTables /\ tz \in TzOffsets /\ config \in Configs

Next ==
    \/ \E m \in Requests, text \in Texts : cmd_search(m, text)
    \/ \E m \in Requests, sent \in BOOLEAN, db \in NoFaults :
           cmd_search_lookup(m, sent, db)
    \/ \E m \in Requests, response \in ApiResponses, db \in NoFaults :
           cmd_search_store(m, response, db)
    \/ \E m \in Requests, sent \in BOOLEAN, db \in NoFaults :
           cmd_search_reply(m, sent, db)
    \/ Tick

Spec == Init /\ [][Next]_vars

(* The same handler with SQLite failing under it. *)
InitFaults == InitTables /\ tz = 0 /\ config = DefaultConfig

NextFaults ==
    \/ \E m \in Requests, text \in Texts : cmd_search(m, text)
    \/ \E m \in Requests, sent \in BOOLEAN, db \in DbReads :
           cmd_search_lookup(m, sent, db)
    \/ \E m \in Requests, response \in ApiResponses, db \in DbOutcomes :
           cmd_search_store(m, response, db)
    \/ \E m \in Requests, sent \in BOOLEAN, db \in DbOutcomes :
           cmd_search_reply(m, sent, db)
    \/ Tick

SpecFaults == InitFaults /\ [][NextFaults]_vars

(* The same handler started on a database file in which the results text   *)
(* of a row is not JSON: cut short, empty, or with data after the list.    *)
MalformedTexts ==
    {<<>>, <<"[", "{", "title", "t1">>, <<"[", "{", "title", "t1", "}", "]", "]">>}

InitMalformed ==
    /\ \E text \in MalformedTexts :
          search_cache = <<[query |-> "py", results |-> text, created_at |-> 0]>>
    /\ search_stats = <<>>
    /\ now = 0
    /\ ret = NoCall
    /\ stored = NoCall
    /\ record_calls = <<>>
    /\ req = [m \in Requests |-> Idle]
    /\ cache_log = <<>>
    /\ vreq = [v \in Videos |-> Idle]
    /\ disk = {}
    /\ multi = Idle
    /\ tz = 0
    /\ config = DefaultConfig

SpecMalformed == InitMalformed /\ [][Next]_vars

----------------------------------------------------------------------------
(* bot.py: is_admin, cmd_stats, cmd_clear_cache.  Each handler makes its   *)
(* Database call and then awaits one reply, so it is one step; the rows    *)
(* the commands act on come from cache_results and save_search_stats.      *)

(* ADMIN_IDS as Config parses it: the list of the numbers in the variable *)
AdminLists == {<<>>, <<1>>, <<1, 3>>}
AdminConfigs == {[DefaultConfig EXCEPT !.ADMIN_IDS = ids] : ids \in AdminLists}

is_admin_anyone(user_id) == TRUE
is_admin(user_id) ==
    \E i \in DOMAIN config.ADMIN_IDS : config.ADMIN_IDS[i] = user_id

cmd_stats(user_id, db) ==
    /\ LET stats == get_stats
       IN  \E top \in stats.top_queries :
              ret' = [op |-> "cmd_stats", user_id |-> user_id,
                      cache_before |-> search_cache, stats_before |-> search_stats,
                      reply |-> IF ~is_admin(user_id) THEN [kind |-> "denied"]
                                ELSE IF db # "ok" THEN [kind |-> "error"]
                                ELSE [kind |-> "stats",
                                      stats |-> [stats EXCEPT !.top_queries = top]]]
    /\ UNCHANGED <<search_cache, search_stats, now, tz, stored, botvars, vidvars,
                   record_calls>>

cmd_clear_cache(user_id, db) ==
    /\ search_cache' =
          IF is_admin(user_id) /\ db = "ok" THEN clear_cache ELSE search_cache
    /\ ret' = [op |-> "cmd_clear_cache", user_id |-> user_id,
               cache_before |-> search_cache, stats_before |-> search_stats,
               reply |-> IF ~is_admin(user_id) THEN [kind |-> "denied"]
                         ELSE IF db # "ok" THEN [kind |-> "error"]
                         ELSE [kind |-> "cleared"]]
    /\ stored' = NoCall
    /\ UNCHANGED <<search_stats, now, tz, botvars, vidvars, record_calls>>

InitAdmin == InitTables /\ tz = 0 /\ config \in AdminConfigs

NextAdmin ==
    \/ \E query \in StatsQueries : CallCacheResults(query, <<r1>>)
    \/ \E user_id \in Users : CallSaveSearchStats(user_id, "py", 1)
    \/ \E user_id \in Users, db \in DbReads : cmd_stats(user_id, db)
    \/ \E user_id \in Users, db \in DbReads : cmd_clear_cache(user_id, db)

SpecAdmin == InitAdmin /\ [][NextAdmin]_vars

----------------------------------------------------------------------------
(* downloader.py: class VideoDownloader.  What yt-dlp does with the URL is *)
(* an input: it raises, returns no info, or writes a file of some size;    *)
(* os.path.getsize on the prepared file name succeeds or raises OSError.   *)

Contains(s, sub) ==
    \E i \in 1..(Len(s) - Len(sub) + 1) : SubSeq(s, i, i + Len(sub) - 1) = sub

supported_domains ==
    {"instagram.com", "tiktok.com", "twitter.com", "x.com", "facebook.com",
     "fb.watch", "reddit.com", "vimeo.com"}

is_supported_url_any(url) == TRUE
is_supported_url(url) == \E domain \in supported_domains : Contains(lower(url), domain)

_detect_platform_short(url) ==
    LET url_lower == lower(url)
    IN  IF Contains(url_lower, "instagram.com") THEN "Instagram"
        ELSE IF Contains(url_lower, "tiktok.com") THEN "TikTok"
        ELSE IF Contains(url_lower, "youtube.com") \/ Contains(url_lower, "youtu.be")
             THEN "YouTube"
        ELSE IF Contains(url_lower, "twitter.com") \/ Contains(url_lower, "x.com")
             THEN "Twitter/X"
        ELSE IF Contains(url_lower, "facebook.com") THEN "Facebook"
        ELSE "Unknown"
_detect_platform(url) ==
    LET url_lower == lower(url)
    IN  IF Contains(url_lower, "instagram.com") THEN "Instagram"
        ELSE IF Contains(url_lower, "tiktok.com") THEN "TikTok"
        ELSE IF Contains(url_lower, "youtube.com") \/ Contains(url_lower, "youtu.be")
             THEN "YouTube"
        ELSE IF Contains(url_lower, "twitter.com") \/ Contains(url_lower, "x.com")
             THEN "Twitter/X"
        ELSE IF Contains(url_lower, "facebook.com") \/ Contains(url_lower, "fb.watch")
             THEN "Facebook"
        ELSE IF Contains(url_lower, "reddit.com") THEN "Reddit"
        ELSE IF Contains(url_lower, "vimeo.com") THEN "Vimeo"
        ELSE "Unknown"

(* is_supported_url and _detect_platform applied to a link *)
Schemes == {"https://", "http://", "HTTPS://"}
Hosts ==
    supported_domains
    \cup {"youtube.com", "youtu.be", "example.org", "netflix.com", "X.COM",
          "www.Instagram.com", "m.FaceBook.com", "vm.tiktok.com", "old.Reddit.com",
          "player.vimeo.com", "t.co"}
Paths == {"", "/7", "/watch?v=x.com"}
Urls == {scheme \o host \o path : scheme \in Schemes, host \in Hosts, path \in Paths}

CallDetectPlatform(url) ==
    /\ ret' = [op |-> "_detect_platform", url |-> url,
               supported |-> is_supported_url(url),
               platform |-> _detect_platform(url)]
    /\ UNCHANGED <<search_cache, search_stats, now, tz, stored, botvars, vidvars,
                   record_calls>>

(* `file_size > 50 * 1024 * 1024` in download_video *)
MaxFileSize == 50 * 1024 * 1024

FileSizes == {1024, MaxFileSize, MaxFileSize + 1}

Extractions ==
    {[kind |-> "DownloadError"], [kind |-> "no_info"]}
    \cup [kind : {"file"}, size : FileSizes, getsize : {"ok", "OSError"}]

RECURSIVE AfterLastSlash(_)
AfterLastSlash(s) ==
    IF ~Contains(s, "/") THEN s ELSE AfterLastSlash(Tail(s))

(* ydl.prepare_filename(info) under outtmpl download_path/%(id)s.%(ext)s *)
prepare_filename(url) == "/tmp/" \o AfterLastSlash(url) \o ".mp4"

(* download_video: the files it leaves on disk and what it returns *)
download_video_disk(url, extraction) ==
    IF extraction.kind # "file" THEN disk
    ELSE IF extraction.getsize = "OSError" THEN disk \cup {prepare_filename(url)}
    ELSE IF extraction.size > MaxFileSize THEN disk \ {prepare_filename(url)}
    ELSE disk \cup {prepare_filename(url)}

download_video(url, extraction) ==
    IF extraction.kind # "file" THEN None
    ELSE IF extraction.getsize = "OSError" THEN None
    ELSE IF extraction.size > MaxFileSize THEN None
    ELSE Some([filepath |-> prepare_filename(url),
               filesize |-> extraction.size,
               platform |-> _detect_platform(url)])

(* cleanup_file: os.remove if the file exists *)
cleanup_file(files, filepath) == files \ {filepath}

----------------------------------------------------------------------------
(* bot.py: handle_messages, the stretches between its awaits. *)

VideoTexts ==
    {"https://vimeo.com/7", " https://X.com/7 ", "https://x.com/8",
     "http://example.org/9", "hello"}

(* `video_info['filesize'] > 50 * 1024 * 1024` in handle_messages *)
TelegramLimit == 50 * 1024 * 1024

VFinished(v, outcome, files) ==
    [pc |-> "done", outcome |-> outcome,
     file_left |-> ("filepath" \in DOMAIN vreq[v] /\ vreq[v].filepath \in files)]
    @@ vreq[v]

(* lines 284-289: an exception inside the try ends in the error reply *)
VRaised(v, exception, files) ==
    [exception |-> exception] @@ VFinished(v, "error", files)

(* lines 228-233: is the text a supported link; `await message.answer` *)
handle_messages(v, text) ==
    /\ vreq[v].pc = "idle"
    /\ LET url == strip(text)
       IN  vreq' = [vreq EXCEPT ![v] =
              IF (Contains(text, "http://") \/ Contains(text, "https://"))
                 /\ is_supported_url(url)
              THEN [pc |-> "status", url |-> url]
              ELSE [pc |-> "done", outcome |-> "help", url |-> url]]
    /\ UNCHANGED <<dbvars, callvars, botvars, disk>>

(* lines 239-275: the branch taken on what download_video returned *)
handle_messages_branch(video_info) ==
    IF video_info = None THEN "failed"
    ELSE IF video_info.val.filesize > TelegramLimit THEN "too_large"
    ELSE "notice"

(* lines 233-252, 275: the status message is out (or raised, outside the   *)
(* try); download_video runs to its end; one edit_text is awaited          *)
handle_messages_download(v, sent, extraction) ==
    /\ vreq[v].pc = "status"
    /\ LET url == vreq[v].url
           video_info == download_video(url, extraction)
           produced == [produced |-> (extraction.kind = "file"),
                        filepath |-> prepare_filename(url),
                        extraction |-> extraction, download_calls |-> 1]
       IN  IF ~sent
           THEN /\ vreq' = [vreq EXCEPT ![v] = VFinished(v, "raised", disk)]
                /\ disk' = disk
           ELSE /\ disk' = download_video_disk(url, extraction)
                /\ vreq' = [vreq EXCEPT ![v] =
                      [pc |-> handle_messages_branch(video_info)]
                      @@ produced @@ vreq[v]]
    /\ UNCHANGED <<dbvars, callvars, botvars>>

(* the awaited edit_text returned or raised: lines 244-249 (too large,     *)
(* then cleanup_file), 252-261 (then open(filepath) and answer_video),     *)
(* 275-282 (download failed)                                               *)
handle_messages_edited(v, sent) ==
    /\ vreq[v].pc \in {"failed", "too_large", "notice"}
    /\ LET r == vreq[v]
       IN  IF ~sent
           THEN /\ disk' = disk
                /\ vreq' = [vreq EXCEPT ![v] = VRaised(v, "TelegramAPIError", disk)]
           ELSE IF r.pc = "failed"
           THEN /\ disk' = disk
                /\ vreq' = [vreq EXCEPT ![v] = VFinished(v, "fetch_failed", disk)]
           ELSE IF r.pc = "too_large"
           THEN /\ disk' = cleanup_file(disk, r.filepath)
                /\ vreq' = [vreq EXCEPT ![v] =
                               VFinished(v, "too_large", cleanup_file(disk, r.filepath))]
           ELSE IF r.filepath \notin disk       \* open() raises FileNotFoundError
           THEN /\ disk' = disk
                /\ vreq' = [vreq EXCEPT ![v] = VRaised(v, "FileNotFoundError", disk)]
           ELSE /\ disk' = disk
                /\ vreq' = [vreq EXCEPT ![v] = [pc |-> "upload"] @@ r]
    /\ UNCHANGED <<dbvars, callvars, botvars>>

(* lines 262-268: answer_video returned or raised; `await status_msg.delete()` *)
handle_messages_sent(v, sent) ==
    /\ vreq[v].pc = "upload"
    /\ vreq' = [vreq EXCEPT ![v] =
          IF sent THEN [pc |-> "delete"] @@ vreq[v]
          ELSE VRaised(v, "TelegramAPIError", disk)]
    /\ UNCHANGED <<dbvars, callvars, botvars, disk>>

(* lines 268-273: status_msg.delete() returned or raised; cleanup_file *)
handle_messages_cleanup(v, deleted) ==
    /\ vreq[v].pc = "delete"
    /\ IF deleted
       THEN /\ disk' = cleanup_file(disk, vreq[v].filepath)
            /\ vreq' = [vreq EXCEPT ![v] =
                  VFinished(v, "sent", cleanup_file(disk, vreq[v].filepath))]
       ELSE /\ disk' = disk
            /\ vreq' = [vreq EXCEPT ![v] = VRaised(v, "TelegramAPIError", disk)]
    /\ UNCHANGED <<dbvars, callvars, botvars>>

InitVideo == InitTables /\ tz = 0 /\ config = DefaultConfig

NextVideo ==
    \/ \E v \in Videos, text \in VideoTexts : handle_messages(v, text)
    \/ \E v \in Videos, sent \in BOOLEAN, extraction \in Extractions :
           handle_messages_download(v, sent, extraction)
    \/ \E v \in Videos, sent \in BOOLEAN : handle_messages_edited(v, sent)
    \/ \E v \in Videos, sent \in BOOLEAN : handle_messages_sent(v, sent)
    \/ \E v \in Videos, deleted \in BOOLEAN : handle_messages_cleanup(v, deleted)

SpecVideo == InitVideo /\ [][NextVideo]_vars

NextPlatform == \E url \in Urls : CallDetectPlatform(url)

SpecPlatform == InitVideo /\ [][NextPlatform]_vars

----------------------------------------------------------------------------
(* search.py: youtube_search, drive_search and MultiSearchEngine.          *)
(* search_all.  asyncio.gather runs the three coroutines as tasks and      *)
(* resumes search_all when all three have finished; with                   *)
(* return_exceptions=True a task that raised is handed back as the         *)
(* exception object in place of its result.                                *)

(* os.getenv: the variable is unset, set to the empty string, or set *)
EnvValues == {None, Some(""), Some("key")}
(* bool(x) of an Optional[str]: None and "" are both falsy *)
TruthyStr(v) == ~v.none /\ v.val # ""

MultiConfigs ==
    {[DefaultConfig EXCEPT !.YOUTUBE_API_KEY = y, !.GOOGLE_DRIVE_CREDENTIALS = d] :
        y \in EnvValues, d \in EnvValues}

Sources == {"google", "youtube", "drive"}

Pending == [kind |-> "pending"]
Returned(value) == [kind |-> "value", value |-> value]
Raised == [kind |-> "exception"]

youtube_search(query) ==
    IF ~TruthyStr(config.YOUTUBE_API_KEY) THEN <<>> ELSE <<>>

drive_search(query) ==
    IF ~TruthyStr(config.GOOGLE_DRIVE_CREDENTIALS) THEN <<>> ELSE <<>>

(* the mapping search_all builds from what gather handed back *)
search_all_results_found(google_results, youtube_results, drive_results) ==
    LET found == {<<"google", google_results>>, <<"youtube", youtube_results>>,
                  <<"drive", drive_results>>}
        kept == {p \in found : p[2].kind = "value" /\ p[2].value # <<>>}
    IN  [source \in {p[1] : p \in kept} |->
            (CHOOSE p \in kept : p[1] = source)[2].value]
search_all_results(google_results, youtube_results, drive_results) ==
    LET results == [source \in Sources |-> <<>>]
        with_google == IF google_results.kind # "exception"
                       THEN [results EXCEPT !["google"] = google_results.value]
                       ELSE results
        with_youtube == IF youtube_results.kind # "exception"
                        THEN [with_google EXCEPT !["youtube"] = youtube_results.value]
                        ELSE with_google
    IN  IF drive_results.kind # "exception"
        THEN [with_youtube EXCEPT !["drive"] = drive_results.value]
        ELSE with_youtube

(* search_all up to the await: the three coroutines are handed to gather *)
search_all(query) ==
    /\ multi.pc = "idle"
    /\ multi' = [pc |-> "gather", query |-> query,
                 tasks |-> [source \in Sources |-> Pending]]
    /\ UNCHANGED <<dbvars, callvars, config, req, cache_log, vidvars>>

(* the task of self.search(query) finishes: the API answered with response *)
search_all_google(response) ==
    /\ multi.pc = "gather"
    /\ multi.tasks["google"] = Pending
    /\ multi' = [pc |-> "gather", query |-> multi.query, response |-> response,
                 tasks |-> [multi.tasks EXCEPT !["google"] = Returned(search(response))]]
    /\ UNCHANGED <<dbvars, callvars, config, req, cache_log, vidvars>>

(* the task of self.youtube_search(query) finishes *)
search_all_youtube ==
    /\ multi.pc = "gather"
    /\ multi.tasks["youtube"] = Pending
    /\ multi' = [multi EXCEPT !.tasks["youtube"] = Returned(youtube_search(multi.query))]
    /\ UNCHANGED <<dbvars, callvars, config, req, cache_log, vidvars>>

(* the task of self.drive_search(query) finishes *)
search_all_drive ==
    /\ multi.pc = "gather"
    /\ multi.tasks["drive"] = Pending
    /\ multi' = [multi EXCEPT !.tasks["drive"] = Returned(drive_search(multi.query))]
    /\ UNCHANGED <<dbvars, callvars, config, req, cache_log, vidvars>>

(* gather is done: search_all resumes, builds the mapping and returns it *)
search_all_return ==
    /\ multi.pc = "gather"
    /\ \A source \in Sources : multi.tasks[source] # Pending
    /\ multi' = [pc |-> "done", query |-> multi.query, response |-> multi.response,
                 tasks |-> multi.tasks,
                 returned |-> search_all_results(multi.tasks["google"],
                                                 multi.tasks["youtube"],
                                                 multi.tasks["drive"])]
    /\ UNCHANGED <<dbvars, callvars, config, req, cache_log, vidvars>>

InitMulti == InitTables /\ tz = 0 /\ config \in MultiConfigs

NextMulti ==
    \/ \E query \in Queries : search_all(query)
    \/ \E response \in ApiResponses : search_all_google(response)
    \/ search_all_youtube
    \/ search_all_drive
    \/ search_all_return

SpecMulti == InitMulti /\ [][NextMulti]_vars

----------------------------------------------------------------------------
(* Properties of the cache, checked under SpecDb. *)

IsLookup == ret.op = "get_cached_results"
IsStored == stored.op = "cache_results"

(* age of the row written by the last cache_results call *)
StoredAge == now - stored.at

(* C1: after cache_results(q1, results), a get_cached_results(q2, days)    *)
(* with q2 normalizing to the same key as q1, made while the age of the    *)
(* entry is at most days (the spec's expiry window, now - created_at <=    *)
(* max_age), returns the results stored under q1.                          *)
C1_NormalizedLookupWithinWindow ==
    (IsLookup /\ IsStored
        /\ normalized_query(ret.query) = normalized_query(stored.query)
        /\ StoredAge <= timedelta(ret.expire_days))
    => ret.value = Some(stored.results)

(* C2: cache_results(query, results) immediately followed by               *)
(* get_cached_results(query) returns exactly the stored list: the same     *)
(* items with the same fields in the same order.                           *)
C2_StoreLookupRoundTrip ==
    (IsLookup /\ IsStored /\ ret.query = stored.query /\ StoredAge = 0)
    => ret.value = Some(stored.results)

C2_Witness ==
    /\ IsLookup /\ IsStored /\ ret.query = stored.query /\ StoredAge = 0
    /\ stored.results = <<r2, r1>>
    /\ ret.value = Some(<<r2, r1>>)

(* C3: get_cached_results(query, max_age) returns the stored list if and   *)
(* only if a row with the normalized key exists and now - created_at <=    *)
(* max_age (a row whose age equals max_age is still returned); otherwise   *)
(* it returns None.                                                        *)
LiveRows(query, expire_days) ==
    {i \in DOMAIN search_cache :
        /\ search_cache[i].query = normalized_query(query)
        /\ now - search_cache[i].created_at <= timedelta(expire_days)}

C3_LookupIffWithinMaxAge ==
    IsLookup =>
        IF LiveRows(ret.query, ret.expire_days) # {}
        THEN \E i \in LiveRows(ret.query, ret.expire_days), results \in ResultLists :
                /\ dumps(results) = search_cache[i].results
                /\ ret.value = Some(results)
        ELSE ret.value = None

(* C5: the cache never holds two rows whose queries normalize to the same  *)
(* key, and after cache_results(query, results), called once or twice with *)
(* the same arguments, exactly one row has that key.                       *)
RowsOf(query) ==
    {i \in DOMAIN search_cache :
        normalized_query(search_cache[i].query) = normalized_query(query)}

C5_OneEntryPerQuery ==
    /\ \A i, j \in DOMAIN search_cache :
          i # j => normalized_query(search_cache[i].query)
                   # normalized_query(search_cache[j].query)
    /\ IsStored => Cardinality(RowsOf(stored.query)) = 1

C5_Witness ==
    /\ IsStored /\ stored.repeated
    /\ Cardinality(RowsOf(stored.query)) = 1
    /\ Len(search_cache) = 2

----------------------------------------------------------------------------
(* Properties of the /search handler, checked under Spec. *)

Looked(m) == "cached" \in DOMAIN req[m]
Searched(m) == "results" \in DOMAIN req[m]
Ended(m) == req[m].pc = "done"

(* C4: the window of cmd_search's cache lookup is config.CACHE_EXPIRE_DAYS: *)
(* a row found for the query is served from the cache when its age is      *)
(* within that many days and is a miss when it is older.                   *)
C4_ConfiguredWindowApplied ==
    \A m \in Requests :
        (Looked(m) /\ req[m].row_age >= 0)
        => (req[m].api_calls = 0
            <=> req[m].row_age <= timedelta(config.CACHE_EXPIRE_DAYS))

(* C6: the handler calls the search API if and only if the cache lookup    *)
(* returned nothing.  On a hit: the cached list, source cache, no API call *)
(* and no cache write.  On a miss: one API call, source live.              *)
C6_ApiCallIffMiss ==
    \A m \in Requests :
        Looked(m) =>
            IF req[m].cached # None
            THEN /\ req[m].api_calls = 0
                 /\ req[m].cache_writes = 0
                 /\ req[m].source = "cache"
                 /\ req[m].results = req[m].cached.val
                 /\ \A i \in DOMAIN cache_log : cache_log[i] # m
            ELSE /\ req[m].api_calls = 1
                 /\ Searched(m) => req[m].source = "live"

C6_Witness ==
    \E a, b \in Requests :
        /\ Ended(a) /\ Looked(a) /\ req[a].cached = None /\ req[a].outcome = "results"
        /\ Ended(b) /\ Looked(b) /\ req[b].cached # None /\ req[b].outcome = "results"

(* C7: when the API call fails (transport error, non-200 status,           *)
(* unparsable body) or brings no items, the result list is empty, the      *)
(* handler writes nothing to the cache and no exception leaves search().   *)
FailedOrEmpty(response) ==
    \/ response.kind # "json"
    \/ "items" \notin DOMAIN response.data
    \/ response.data.items = <<>>

C7_ApiFailureIsEmptyResult ==
    \A m \in Requests :
        (Searched(m) /\ req[m].source = "live" /\ FailedOrEmpty(req[m].response))
        => /\ req[m].results = <<>>
           /\ req[m].cache_writes = 0
           /\ \A i \in DOMAIN cache_log : cache_log[i] # m
           /\ \/ req[m].pc = "notfound"
              \/ Ended(m) /\ req[m].outcome \in {"not_found", "error"}

C7_Witness ==
    \E a, b \in Requests :
        /\ Ended(a) /\ Searched(a) /\ req[a].source = "live"
        /\ req[a].response.kind = "bad_json" /\ req[a].outcome = "not_found"
        /\ Ended(b) /\ Searched(b) /\ req[b].source = "live"
        /\ req[b].response.kind = "status"
        /\ search_cache = <<>>

(* C8: a search request appends a stats record if and only if its result   *)
(* list is non-empty, from the cache or live: one record with the user id, *)
(* the query and the length of the list; none when the list is empty.      *)
StatsRowsOf(m) ==
    {i \in DOMAIN search_stats :
        /\ search_stats[i].user_id = req[m].user_id
        /\ search_stats[i].query = req[m].query
        /\ search_stats[i].results_count = Len(req[m].results)}

C8_StatsIffResults ==
    \A m \in Requests :
        (Ended(m) /\ Searched(m))
        => IF req[m].results # <<>>
           THEN Cardinality(StatsRowsOf(m)) = 1
           ELSE StatsRowsOf(m) = {}

(* C9: two requests whose queries normalize to the same key, both missing  *)
(* the cache, both calling the API and both writing the cache: whatever    *)
(* the interleaving, the cache ends with exactly one row for the key, and  *)
(* it holds the results of the request that wrote last.                    *)
C9_LastWriteWins ==
    \A a, b \in Requests :
        (/\ a # b /\ Ended(a) /\ Ended(b) /\ Looked(a) /\ Looked(b)
         /\ req[a].cached = None /\ req[b].cached = None
         /\ normalized_query(req[a].query) = normalized_query(req[b].query)
         /\ cache_log = <<a, b>>)
        => /\ Cardinality(RowsOf(req[b].query)) = 1
           /\ \A i \in RowsOf(req[b].query) :
                 /\ search_cache[i].results = dumps(req[b].results)
                 /\ search_cache[i].query = normalized_query(req[b].query)

C9_Witness ==
    /\ Ended("m1") /\ Ended("m2") /\ Looked("m1") /\ Looked("m2")
    /\ req["m1"].cached = None /\ req["m2"].cached = None
    /\ req["m1"].query # req["m2"].query
    /\ normalized_query(req["m1"].query) = normalized_query(req["m2"].query)
    /\ cache_log = <<"m2", "m1">>
    /\ req["m1"].results # req["m2"].results
    /\ Len(search_cache) = 1
    /\ search_cache[1].results = dumps(req["m1"].results)

----------------------------------------------------------------------------
(* Properties of the video handler, checked under SpecVideo. *)

(* C10: for every video request in which extraction produced a file on     *)
(* disk, the file no longer exists when the handling of the request ends,  *)
(* on every exit path.                                                     *)
C10_FileGoneAtEnd ==
    \A v \in Videos :
        (vreq[v].pc = "done" /\ "produced" \in DOMAIN vreq[v] /\ vreq[v].produced)
        => ~vreq[v].file_left

(* C11: when extraction succeeds but the file is larger than 50 MiB, the   *)
(* file is deleted and the request ends with the outcome too_large, not    *)
(* with fetch_failed: the user is told that the video is too large.        *)
TooLarge(v) ==
    /\ "extraction" \in DOMAIN vreq[v]
    /\ vreq[v].extraction.kind = "file"
    /\ vreq[v].extraction.getsize = "ok"
    /\ vreq[v].extraction.size > 50 * 1024 * 1024

C11_TooLargeReported ==
    \A v \in Videos :
        (vreq[v].pc = "done" /\ TooLarge(v) /\ vreq[v].outcome # "error")
        => /\ vreq[v].outcome = "too_large"
           /\ ~vreq[v].file_left

(* C12: a message whose URL contains no domain of the allow-list never     *)
(* causes download_video to be called; the request ends with the help      *)
(* reply and no file is created for it.                                    *)
OffAllowList(url) ==
    \A domain \in supported_domains : ~Contains(lower(url), domain)

C12_UnsupportedNeverExtracted ==
    \A v \in Videos :
        (vreq[v].pc # "idle" /\ OffAllowList(vreq[v].url))
        => /\ vreq[v].pc = "done"
           /\ vreq[v].outcome = "help"
           /\ "download_calls" \notin DOMAIN vreq[v]
           /\ prepare_filename(vreq[v].url) \notin disk

C12_Witness ==
    \E a, b \in Videos :
        /\ vreq[a].pc = "done" /\ vreq[a].url = "http://example.org/9"
        /\ vreq[a].outcome = "help"
        /\ vreq[b].pc = "done" /\ vreq[b].outcome = "sent"
        /\ vreq[b].download_calls = 1

----------------------------------------------------------------------------
(* Properties of the /search handler when the database fails or holds      *)
(* malformed data, checked under SpecFaults and SpecMalformed.             *)

(* C13: if the cache write or the stats write fails in a search request    *)
(* that has a non-empty live result list, the failure is absorbed: the     *)
(* user gets the results and the request does not end with the error       *)
(* reply because of the write failure.                                     *)
WriteFailed(m) ==
    \/ "cache_db" \in DOMAIN req[m] /\ req[m].cache_db # "ok"
    \/ "stats_db" \in DOMAIN req[m] /\ req[m].stats_db # "ok"

C13_WriteFailureAbsorbed ==
    \A m \in Requests :
        (/\ Ended(m) /\ Searched(m) /\ req[m].source = "live"
         /\ req[m].results # <<>>
         /\ WriteFailed(m)
         /\ ("reply_sent" \in DOMAIN req[m] => req[m].reply_sent))
        => req[m].outcome = "results"

EmptyQueryTexts == {"/search", "/search "}

C20_EmptyQueryRejected ==
    \A m \in Requests :
        (req[m].pc # "idle" /\ req[m].text \in EmptyQueryTexts)
        => /\ Ended(m)
           /\ req[m].outcome \in {"usage", "unavailable"}
           /\ ~Looked(m)
           /\ "api_calls" \notin DOMAIN req[m]
           /\ \A i \in DOMAIN cache_log : cache_log[i] # m
           /\ \A i \in DOMAIN search_stats : search_stats[i].user_id # from_user[m]

C20_Witness ==
    \E a, b \in Requests :
        /\ Ended(a) /\ req[a].text = "/search " /\ req[a].outcome = "usage"
        /\ Ended(b) /\ req[b].outcome = "results"
        /\ Len(search_cache) = 1 /\ Len(search_stats) = 1

----------------------------------------------------------------------------
(* Properties of the admin commands, checked under SpecAdmin. *)

(* C15: /clear_cache and /stats take effect only for users in the admin    *)
(* list: a command from any other user is answered with the refusal, never *)
(* with the summary or the cleared notice, and leaves the cache and the    *)
(* stats as they were.                                                     *)
AdminSet == {config.ADMIN_IDS[i] : i \in DOMAIN config.ADMIN_IDS}

C15_AdminOnly ==
    (ret.op \in {"cmd_stats", "cmd_clear_cache"} /\ ret.user_id \notin AdminSet)
    => /\ ret.reply.kind = "denied"
       /\ search_cache = ret.cache_before
       /\ search_stats = ret.stats_before

C15_Witness ==
    /\ ret.op = "cmd_clear_cache" /\ ret.user_id = 2
    /\ config.ADMIN_IDS = <<1, 3>>
    /\ ret.reply.kind = "denied"
    /\ Len(search_cache) = 2 /\ Len(search_stats) = 2

----------------------------------------------------------------------------
(* Properties of pruning, clearing and the summary, checked under SpecDb   *)
(* and SpecStats.                                                          *)

(* C16: clear_old_cache(days) deletes exactly the rows whose created_at is *)
(* strictly before now - days, leaves every newer row untouched, and       *)
(* returns the number of rows it deleted.                                  *)
PruneExpected(before, days) ==
    SelectSeq(before, LAMBDA row : ~(row.created_at < now - timedelta(days)))

C16_PruneExactlyOlder ==
    ret.op = "clear_old_cache"
    => /\ search_cache = PruneExpected(ret.before, ret.days)
       /\ ret.value = Len(ret.before) - Len(search_cache)

(* C17: after clear_cache the cache is empty (get_stats counts 0 cached    *)
(* rows) and a lookup of any query stored before returns None, whatever    *)
(* the age of the rows was.                                                *)
C17_ClearAllEmpties ==
    /\ ret.op = "clear_cache"
       => search_cache = <<>> /\ get_stats.cached_queries = 0
    /\ (IsLookup /\ stored.op = "clear_cache")
       => /\ ret.value = None
          /\ search_cache = <<>>
          /\ get_stats.cached_queries = 0

C17_Witness ==
    /\ IsLookup /\ stored.op = "clear_cache"
    /\ normalized_query(ret.query) \in stored.had
    /\ Cardinality(stored.had) = 2
    /\ ret.value = None

(* C18: get_stats reports total_searches equal to the number of            *)
(* save_search_stats calls made so far, duplicates counted each time,      *)
(* unique_users equal to the number of distinct user ids among them, and   *)
(* cached_queries equal to the current number of cache rows.               *)
C18_SummaryCounts ==
    ret.op = "get_stats"
    => /\ ret.value.total_searches = Len(record_calls)
       /\ ret.value.unique_users
            = Cardinality({record_calls[i] : i \in DOMAIN record_calls})
       /\ ret.value.cached_queries = Len(search_cache)

C18_Witness ==
    /\ ret.op = "get_stats"
    /\ record_calls = <<2, 2>>
    /\ ret.value.total_searches = 2 /\ ret.value.unique_users = 1
    /\ ret.value.cached_queries = 2

(* C19: the stats log only grows, by one record appended per               *)
(* save_search_stats call, and no record in it is changed or removed;      *)
(* cache_results, get_cached_results, clear_cache and clear_old_cache      *)
(* leave it unchanged, and save_search_stats leaves the cache unchanged.   *)
C19_StatsAppendOnly ==
    [][/\ \/ search_stats' = search_stats
          \/ /\ Len(search_stats') = Len(search_stats) + 1
             /\ SubSeq(search_stats', 1, Len(search_stats)) = search_stats
             /\ record_calls' # record_calls
             /\ search_cache' = search_cache
       /\ record_calls' = record_calls => search_stats' = search_stats]_vars

C19_Witness ==
    /\ Len(search_stats) = 2
    /\ search_stats[1].created_at < search_stats[2].created_at
    /\ stored.op = "clear_cache" /\ stored.had # {}
    /\ ret.op = "get_stats" /\ ret.value.total_searches = 2

----------------------------------------------------------------------------
(* C25: starting from an empty cache and using only bot commands, every    *)
(* cache row holds a non-empty result list in every reachable state,       *)
(* because cmd_search writes the cache only after a live search returned   *)
(* at least one result; hence a cache hit never yields an empty list.      *)
C25_CacheRowsNonEmpty ==
    /\ \A i \in DOMAIN search_cache :
          /\ loads(search_cache[i].results).ok
          /\ loads(search_cache[i].results).val # <<>>
    /\ \A m \in Requests :
          (Looked(m) /\ req[m].cached # None) => req[m].cached.val # <<>>

C25_Witness ==
    \E a, b \in Requests :
        /\ Ended(a) /\ Searched(a) /\ req[a].source = "live"
        /\ req[a].cache_writes = 1
        /\ Ended(b) /\ Looked(b) /\ req[b].cached = Some(req[a].results)
        /\ Len(req[b].cached.val) = 2
        /\ Len(search_cache) = 1

(* C27: for every URL that is_supported_url accepts, _detect_platform      *)
(* returns a named platform and never Unknown.                             *)
C27_SupportedHasPlatform ==
    (ret.op = "_detect_platform" /\ ret.supported)
    => ret.platform \in {"Instagram", "TikTok", "YouTube", "Twitter/X",
                         "Facebook", "Reddit", "Vimeo"}

C27_Witness ==
    /\ ret.op = "_detect_platform" /\ ret.supported
    /\ ret.url = "HTTPS://fb.watch/7"
    /\ ret.platform = "Facebook"

----------------------------------------------------------------------------
(* C22: cache_results on a key that already has a row replaces its results *)
(* and resets created_at to the time of the call: the one row of the key   *)
(* holds the new results and the new time, and a lookup made within        *)
(* max_age of the new store returns the newly stored results.              *)
C22_StoreRefreshesEntry ==
    (IsStored /\ stored.replaced)
    => /\ \A i \in RowsOf(stored.query) :
             /\ search_cache[i].results = dumps(stored.results)
             /\ search_cache[i].created_at = stored.at
       /\ (IsLookup
           /\ normalized_query(ret.query) = normalized_query(stored.query)
           /\ StoredAge <= timedelta(ret.expire_days))
          => ret.value = Some(stored.results)

(* C26: get_cached_results never modifies the cache or the stats log: an   *)
(* expired row is not removed by the lookup and stays counted in           *)
(* get_stats' cached_queries until cache_results overwrites it or          *)
(* clear_cache or clear_old_cache removes it.                              *)
C26_LookupChangesNothing ==
    [][ret'.op = "get_cached_results"
       => /\ search_cache' = search_cache
          /\ search_stats' = search_stats
          /\ get_stats'.cached_queries = get_stats.cached_queries]_vars

C26_Witness ==
    /\ IsLookup /\ ret.value = None
    /\ RowsOf(ret.query) # {}
    /\ get_stats.cached_queries = 2
    /\ Len(search_stats) = 1

----------------------------------------------------------------------------
(* C23: for each video request with an allow-listed URL, download_video is *)
(* called exactly once, with no retry, and the request ends in one of the  *)
(* outcomes video sent, fetch_failed or too_large; an exception from the   *)
(* extraction yields fetch_failed and does not propagate.  Requests in     *)
(* which a Telegram call itself raised are left aside.                     *)
Downloaded(v) == "download_calls" \in DOMAIN vreq[v]

TelegramRaised(v) ==
    "exception" \in DOMAIN vreq[v] /\ vreq[v].exception = "TelegramAPIError"

C23_OneExtractionOneOutcome ==
    \A v \in Videos :
        (vreq[v].pc = "done" /\ Downloaded(v) /\ ~TelegramRaised(v))
        => /\ vreq[v].download_calls = 1
           /\ vreq[v].outcome \in {"sent", "fetch_failed", "too_large"}
           /\ vreq[v].extraction.kind # "file" => vreq[v].outcome = "fetch_failed"

----------------------------------------------------------------------------
(* C21: the top queries of get_stats are at most 5 (query, count) pairs,   *)
(* grouped by the exact query text (texts differing in case or whitespace  *)
(* are separate groups), each count the number of stats records with that  *)
(* text, in descending order of count, and no omitted text has a higher    *)
(* count than a listed one.                                                *)
RecordsWith(query) ==
    {i \in DOMAIN search_stats : search_stats[i].query = query}

C21_TopFive ==
    ret.op = "get_stats"
    => LET top == ret.value.top_queries
           listed == {top[i][1] : i \in DOMAIN top}
       IN  /\ Len(top) <= 5
           /\ \A i \in DOMAIN top :
                 /\ top[i][2] = Cardinality(RecordsWith(top[i][1]))
                 /\ top[i][2] >= 1
           /\ \A i, j \in DOMAIN top :
                 i < j => top[i][1] # top[j][1] /\ top[i][2] >= top[j][2]
           /\ \A k \in DOMAIN search_stats :
                 search_stats[k].query \notin listed
                 => \A i \in DOMAIN top :
                       Cardinality(RecordsWith(search_stats[k].query)) <= top[i][2]

C21_Witness ==
    /\ ret.op = "get_stats"
    /\ Len(ret.value.top_queries) = 5
    /\ ret.value.top_queries[3] = <<"PY", 2>>
    /\ ret.value.top_queries[5] = <<"py", 1>>
    /\ RecordsWith("py ") # {}
    /\ \A i \in 1..5 : ret.value.top_queries[i][1] # "py "

----------------------------------------------------------------------------
(* C24: search_all hands the search, youtube_search and drive_search       *)
(* branches to gather together and returns only when all three have        *)
(* finished; the returned mapping has exactly the keys google, youtube and *)
(* drive; a branch whose request failed contributes an empty list and      *)
(* leaves the other branches' results in the mapping.                      *)
BranchFailed ==
    multi.tasks["google"] # Pending /\ multi.response.kind # "json"

C24_AllBranchesJoined ==
    /\ multi.pc \in {"gather", "done"} => DOMAIN multi.tasks = Sources
    /\ multi.pc = "done"
       => /\ \A source \in Sources : multi.tasks[source].kind = "value"
          /\ DOMAIN multi.returned = Sources
          /\ \A source \in Sources :
                multi.returned[source] = multi.tasks[source].value
          /\ BranchFailed => multi.returned["google"] = <<>>
          /\ ~BranchFailed
             => multi.returned["google"] = _parse_google_results(multi.response.data)
          /\ multi.returned["youtube"] = <<>>
          /\ multi.returned["drive"] = <<>>

C24_Witness ==
    /\ multi.pc = "done"
    /\ multi.response.kind = "ClientError"
    /\ TruthyStr(config.YOUTUBE_API_KEY)
    /\ multi.returned = [source \in Sources |-> <<>>]

====
